---------------------------- MODULE Spec2Model ----------------------------
(***************************************************************************)
(* A model of the bus tracking system: the route traversal state machine   *)
(* (data_models.py, Bus), the in-memory offline log queue with its sync    *)
(* pass (logic.py, StopTracker), the on-disk offline store with the        *)
(* DynamoDB write path (database.py, OfflineMode / DatabaseOperations),    *)
(* the route cache with the startup (logic.py, RouteCache; main.py) and    *)
(* the interactive and operation loops (main.py).                          *)
(*                                                                         *)
(* Indices are kept 0-based as in the Python source; a TLA+ sequence s is  *)
(* read at position i of the source as s[i + 1].                           *)
(***************************************************************************)
EXTENDS Integers, Sequences, FiniteSets, TLC

(***************************************************************************)
(* Bounds of the model.                                                    *)
(***************************************************************************)
\* longest route (number of stops) explored
MaxStops == 4
\* advances explored per trip
MaxAdvances == 8
\* trips started on the same cached route
MaxTrips == 2
\* stop records produced by record_stop
MaxRecords == 3
\* records handed to DatabaseOperations.update_last_stop / save_route_data
MaxDiskRecords == 3
\* longest batch handed to DatabaseOperations.save_route_data
MaxBatch == 2
\* PI_CONFIG['max_offline_storage'] of the explored deployments (config.py
\* sets 1000; the capacity is scaled down so that it is reached)
MaxOfflineStorage == 3
\* clock ticks (of 20 minutes) explored by the route cache
MaxTicks == 5
\* records handed to OfflineMode by the two threads saving concurrently
MaxConcurrentRecords == 4

(***************************************************************************)
(* State.                                                                  *)
(***************************************************************************)
VARIABLES
    \* ---- data_models.py: BusRoute / Bus --------------------------------
    route_type,          \* BusRoute.route_type: 1 = LOOP, 2 = LINEAR
    stops,               \* BusRoute.stops, the list object shared with the cache
    bus,                 \* "none" before a Bus is constructed, "active" after
    current_stop_index,  \* Bus.current_stop_index
    direction,           \* Bus.direction
    visited,             \* positions of the trip: <<index, direction>> at start
                         \* and after each advance (the trip's stop records)
    trips,               \* number of Bus objects constructed so far
    \* ---- database.py: DatabaseConnectionPool, and the relational store --
    connections,         \* DatabaseConnectionPool._connections (a list)
    db_up,               \* whether the relational store answers a statement
    stop_logs,           \* rows of the daily stop_logs table (as a set of records)
    ultimas_paradas,     \* the device's row of ULTIMAS_PARADAS (0: no row)
    \* ---- logic.py: StopTracker -----------------------------------------
    offline_log_queue,   \* StopTracker._offline_log_queue
    is_syncing,          \* StopTracker._is_syncing
    pc,                  \* per thread: where it is in record_stop / _sync_offline_logs
    conn,                \* per thread: the connection it holds (0: none)
    new_record,          \* record_stop: new_record (0: none)
    record,              \* _sync_offline_logs: record (0: none), per thread
    temp_queue,          \* _sync_offline_logs: temp_queue, per thread
    produced,            \* number of stop records produced so far
    rs_outcome,          \* how the last record_stop call ended:
                         \* "none" (none yet, or running), "ok", "queued", "raised"
    working,             \* history: the working list the thread's pass snapshotted
    failed_at,           \* history: position in working of the entry whose
                         \* write failed in the thread's pass (0: none failed)
    tracker,             \* whether a StopTracker has been constructed
    \* ---- database.py: DynamoDB manager, OfflineMode, DatabaseOperations -
    dynamo_available,    \* dynamo_manager.client / .table are not None
    dynamo_up,           \* whether DynamoDB answers a request
    dynamo_items,        \* the table: per partition key BUS#<id> its item ("none")
    offline_files,       \* the .json files of OFFLINE_DATA_DIR, oldest mtime first
    current_size,        \* OfflineMode._current_size
    sod_pc,              \* sync_offline_data: "idle" or "loop"
    pending_data,        \* sync_offline_data: the entries of pending_data not yet
                         \* iterated over
    disk_produced,       \* number of records handed to DatabaseOperations so far
    dynamo_written,      \* history: every record ever written to the table
    accepted,            \* history: records of the write calls that returned
    evicted,             \* history: records deleted by _cleanup_oldest_files
    superseded,          \* history: records replaced by a write to the same file
    last_op,             \* history: the operation that led to this state
    \* ---- logic.py: RouteCache, and main.py: initialize_system -----------
    routes,              \* RouteCache._routes: [loaded |-> FALSE] is None
    last_update,         \* RouteCache._last_update, in seconds (-1: None)
    cache_file,          \* routes_cache.json: whether it exists, and its data
    now,                 \* datetime.now(), in seconds
    rutas,               \* the rows of table RUTAS for the deployment's region
    main_pc,             \* where the main thread is in initialize_system /
                         \* get_routes
    lr_conn,             \* _register_bus / _load_routes: conn (0: none)
    config_set,          \* config.py: COUNTRY_CODE and REGION_NAME are both
                         \* non-empty
    gr,                  \* history: the current (or last) get_routes call
    last_store_load,     \* history: time of the last load from the store
                         \* that succeeded (-1: none)
    last_loaded,         \* history: the table that load built
    \* ---- main.py: run_interactive_loop, operation_loop -----------------
    loop_pc,             \* where the main thread is in the two loops: "select"
                         \* (route prompt), "trip_start" / "advanced" (in the
                         \* record_stop call of line 141 / 166), "wait"
                         \* (operation_loop, waiting for an event); and in
                         \* cleanup: "closing", "mark_get", "mark_pop",
                         \* "mark_exec", "done"
    exit_event,          \* controller.exit_event.is_set()
    advance_event,       \* controller.advance_event.is_set()
    unserved,            \* history: an advance was requested while the
                         \* previous one was being recorded or announced,
                         \* and no advance was performed since
    records,             \* history: the records record_stop built, in order
    \* ---- database.py: OfflineMode called from two threads --------------
    om_pc,               \* per thread, where it is in save_last_stop /
                         \* save_route_data: "idle", "check", "write", "load",
                         \* "store"
    om_name,             \* per thread: the file name of its call
    om_data,             \* per thread: the records of its call
    om_loaded            \* per thread: the value of _current_size it read for
                         \* "self._current_size += 1"

busVars == <<route_type, stops, bus, current_stop_index, direction, visited, trips>>

dbVars == <<connections, db_up, stop_logs, ultimas_paradas>>

syncVars == <<offline_log_queue, is_syncing, pc, conn, new_record, record,
              temp_queue, produced, rs_outcome, working, failed_at, tracker>>

diskVars == <<dynamo_available, dynamo_up, dynamo_items, offline_files,
              current_size, sod_pc, pending_data, disk_produced, dynamo_written,
              accepted, evicted, superseded, last_op>>

cacheVars == <<routes, last_update, cache_file, now, rutas, main_pc, lr_conn,
               config_set, gr, last_store_load, last_loaded>>

loopVars == <<loop_pc, exit_event, advance_event, unserved, records>>

omVars == <<om_pc, om_name, om_data, om_loaded>>

vars == <<busVars, dbVars, syncVars, diskVars, cacheVars, loopVars, omVars>>

\* what the route traversal leaves alone
nonBusVars == <<dbVars, syncVars, diskVars, cacheVars, loopVars, omVars>>

\* what the relational write path and the sync pass leave alone
nonSyncVars == <<busVars, diskVars, cacheVars, loopVars, omVars>>

\* what the DynamoDB write path and the offline store leave alone
nonDiskVars == <<busVars, dbVars, syncVars, cacheVars, loopVars, omVars>>

\* what the route cache and the startup leave alone (they use the pool and
\* the store's reachability of dbVars)
nonCacheVars == <<busVars, stop_logs, ultimas_paradas, syncVars, diskVars,
                  loopVars, omVars>>

\* what the interactive loop and the operation loop leave alone
nonLoopVars == <<diskVars, cacheVars, omVars>>

\* what OfflineMode's calls, run step by step, leave alone
nonOmVars == <<busVars, dbVars, syncVars, cacheVars, loopVars>>

(***************************************************************************)
(* data_models.py                                                          *)
(***************************************************************************)
StopNames == <<"A", "B", "C", "D", "E", "F", "G", "H">>

\* a route's stop list with n stops
RouteStops(n) == SubSeq(StopNames, 1, n)

\* list.reverse()
Reverse(s) == [i \in 1..Len(s) |-> s[Len(s) + 1 - i]]

\* Bus.next_stop with the reverse terminal test off by one (turns at index 1)
NextPosTurnEarly(rt, n, idx, dir) ==
    IF rt = 1
    THEN [index |-> (idx + 1) % n, direction |-> dir]
    ELSE IF dir = 1
         THEN IF idx = n - 1
              THEN [index |-> idx - 1, direction |-> -1]
              ELSE [index |-> idx + 1, direction |-> dir]
         ELSE IF idx = 1
              THEN [index |-> idx + 1, direction |-> 1]
              ELSE [index |-> idx - 1, direction |-> dir]

\* Bus.next_stop with the LOOP wrap-around taken one stop too late
NextPosLateWrap(rt, n, idx, dir) ==
    IF rt = 1
    THEN [index |-> (idx + 1) % (n + 1), direction |-> dir]
    ELSE IF dir = 1
         THEN IF idx = n - 1
              THEN [index |-> idx - 1, direction |-> -1]
              ELSE [index |-> idx + 1, direction |-> dir]
         ELSE IF idx = 0
              THEN [index |-> idx + 1, direction |-> 1]
              ELSE [index |-> idx - 1, direction |-> dir]

\* Bus.next_stop that flips at the forward terminal without stepping back
NextPosStayAtEnd(rt, n, idx, dir) ==
    IF rt = 1
    THEN [index |-> (idx + 1) % n, direction |-> dir]
    ELSE IF dir = 1
         THEN IF idx = n - 1
              THEN [index |-> idx, direction |-> -1]
              ELSE [index |-> idx + 1, direction |-> dir]
         ELSE IF idx = 0
              THEN [index |-> idx + 1, direction |-> 1]
              ELSE [index |-> idx - 1, direction |-> dir]

\* Bus.next_stop that never turns at a terminal of a LINEAR route
NextPosNoTurn(rt, n, idx, dir) ==
    IF rt = 1
    THEN [index |-> (idx + 1) % n, direction |-> dir]
    ELSE [index |-> idx + dir, direction |-> dir]

\* Bus.next_stop as a function of (route_type, len(stops), index, direction)
NextPos(rt, n, idx, dir) ==
    IF rt = 1
    THEN [index |-> (idx + 1) % n, direction |-> dir]
    ELSE IF dir = 1
         THEN IF idx = n - 1
              THEN [index |-> idx - 1, direction |-> -1]
              ELSE [index |-> idx + 1, direction |-> dir]
         ELSE IF idx = 0
              THEN [index |-> idx + 1, direction |-> 1]
              ELSE [index |-> idx - 1, direction |-> dir]

\* Bus.set_direction: the direction it sets
SetDirectionDir(rt, choice) ==
    IF choice = 1 /\ rt = 2 THEN -1 ELSE 1

\* Bus.set_direction: the stop list it leaves in the (shared) route object
SetDirectionStops(rt, choice, s) ==
    IF choice = 1 /\ rt = 2 THEN Reverse(s) ELSE s

\* Bus.current_stop
current_stop == stops[current_stop_index + 1]

\* Bus.final_destination
final_destination == IF direction = 1 THEN stops[Len(stops)] ELSE stops[1]

\* main.py run_interactive_loop: bus = Bus(id, route); bus.set_direction(choice)
StartTrip(choice) ==
    /\ trips < MaxTrips
    /\ bus' = "active"
    /\ trips' = trips + 1
    /\ current_stop_index' = 0
    /\ direction' = SetDirectionDir(route_type, choice)
    /\ stops' = SetDirectionStops(route_type, choice, stops)
    /\ visited' = << [index |-> 0, direction |-> SetDirectionDir(route_type, choice)] >>
    /\ UNCHANGED route_type
    /\ UNCHANGED nonBusVars

\* main.py operation_loop: self.active_bus.next_stop()
next_stop ==
    /\ bus = "active"
    /\ Len(visited) <= MaxAdvances
    /\ LET p == NextPos(route_type, Len(stops), current_stop_index, direction)
       IN /\ current_stop_index' = p.index
          /\ direction' = p.direction
          /\ visited' = Append(visited, p)
    /\ UNCHANGED <<route_type, stops, bus, trips>>
    /\ UNCHANGED nonBusVars

(***************************************************************************)
(* database.py: DatabaseConnectionPool.  logic.py: StopTracker.            *)
(*                                                                         *)
(* Two threads run this code: "fg", the main thread (record_stop, and the  *)
(* sync pass record_stop calls), and "bg", the daemon thread that          *)
(* StopTracker.__init__ starts on _sync_offline_logs.  A thread's pc is    *)
(* "idle" when it is outside both functions (for "bg": not alive).         *)
(* A stop record is named by its production number, which orders records   *)
(* as their 'Time' field does.                                             *)
(***************************************************************************)
Threads == {"fg", "bg"}

\* DatabaseConnectionPool._max_connections
max_connections == 2

\* the pools _initialize_pool can leave: every failed connect shrinks the pool
InitialPools == {[i \in 1..n |-> i] : n \in 0..max_connections}

\* pcs of a thread inside a sync pass it entered (flag taken, not yet released)
PassPcs == {"sy_drain", "sy_loop", "sy_insert_get", "sy_insert_pop",
            "sy_insert_exec", "sy_update_get", "sy_update_pop",
            "sy_update_exec", "sy_requeue", "sy_release"}

InPass(t) == pc[t] \in PassPcs

\* the pcs of the two writes, _insert_log_record and _update_last_stop, in
\* record_stop ("rs") and in _sync_offline_logs ("sy")
GetPcs == {"rs_insert_get", "rs_update_get", "sy_insert_get", "sy_update_get"}
PopPcs == {"rs_insert_pop", "rs_update_pop", "sy_insert_pop", "sy_update_pop"}
ExecPcs == {"rs_insert_exec", "rs_update_exec", "sy_insert_exec", "sy_update_exec"}

PopOf(p) == CASE p = "rs_insert_get" -> "rs_insert_pop"
              [] p = "rs_update_get" -> "rs_update_pop"
              [] p = "sy_insert_get" -> "sy_insert_pop"
              [] p = "sy_update_get" -> "sy_update_pop"

ExecOf(p) == CASE p = "rs_insert_pop" -> "rs_insert_exec"
               [] p = "rs_update_pop" -> "rs_update_exec"
               [] p = "sy_insert_pop" -> "sy_insert_exec"
               [] p = "sy_update_pop" -> "sy_update_exec"

\* where a write that succeeded continues
AfterExec(p) == CASE p = "rs_insert_exec" -> "rs_update_get"
                  [] p = "rs_update_exec" -> "rs_check"
                  [] p = "sy_insert_exec" -> "sy_update_get"
                  [] p = "sy_update_exec" -> "sy_loop"

InSyncCode(p) == p \in {"sy_insert_get", "sy_update_get", "sy_insert_pop",
                        "sy_update_pop", "sy_insert_exec", "sy_update_exec"}

\* the record a write at pc p of thread t writes
WrittenRecord(t, p) == IF InSyncCode(p) THEN record[t] ELSE new_record

\* position in the pass's working list of the entry being written
CurrentEntry(t) == Len(working[t]) - Len(temp_queue[t])

\* StopTracker.__init__: start the sync thread unless one is alive
SpawnedPc(by) ==
    IF by = "fg" /\ pc["bg"] = "idle"
    THEN [pc EXCEPT !["bg"] = "sy_enter"]
    ELSE pc

\* main.py run_interactive_loop: tracker = StopTracker(bus, route), built
\* for each trip before the first record_stop
NewTracker ==
    /\ loop_pc = "select"
    /\ pc["fg"] = "idle"
    /\ pc["bg"] = "idle"
    /\ pc' = SpawnedPc("fg")
    /\ tracker' = TRUE
    /\ UNCHANGED <<dbVars, offline_log_queue, is_syncing, conn, new_record,
                   record, temp_queue, produced, rs_outcome, working, failed_at>>
    /\ UNCHANGED nonSyncVars

\* record_stop, lines 44-58: build new_record
RecordStopBegin ==
    /\ loop_pc = "select"
    /\ tracker
    /\ pc["fg"] = "idle"
    /\ produced < MaxRecords
    /\ produced' = produced + 1
    /\ new_record' = produced + 1
    /\ rs_outcome' = "none"
    /\ pc' = [pc EXCEPT !["fg"] = "rs_insert_get"]
    /\ UNCHANGED <<dbVars, offline_log_queue, is_syncing, conn, record,
                   temp_queue, working, failed_at>>
    /\ UNCHANGED tracker
    /\ UNCHANGED nonSyncVars

\* get_connection, "while not self._connections: time.sleep(0.1)": the loop
\* is left once the list is seen non-empty
DbGet(t) ==
    /\ pc[t] \in GetPcs
    /\ connections # << >>
    /\ pc' = [pc EXCEPT ![t] = PopOf(pc[t])]
    /\ UNCHANGED <<dbVars, offline_log_queue, is_syncing, conn, new_record,
                   record, temp_queue, produced, rs_outcome, working, failed_at>>
    /\ UNCHANGED tracker
    /\ UNCHANGED nonSyncVars

\* an exception that is not a mariadb.Error leaves the function of thread t:
\* neither except clause (logic.py 68, 212) catches it.  In a sync pass the
\* locals (record, temp_queue) go with the frame and lines 219-220 are not
\* run; in "fg" it leaves record_stop as well.
RaiseOther(t) ==
    /\ pc' = [pc EXCEPT ![t] = "idle"]
    /\ record' = [record EXCEPT ![t] = 0]
    /\ temp_queue' = [temp_queue EXCEPT ![t] = << >>]
    /\ failed_at' = IF InSyncCode(pc[t])
                    THEN [failed_at EXCEPT ![t] = CurrentEntry(t)]
                    ELSE failed_at
    /\ rs_outcome' = IF t = "fg" THEN "raised" ELSE rs_outcome
    /\ UNCHANGED <<offline_log_queue, is_syncing, conn, new_record, produced,
                   working>>

\* get_connection that returns the last connection and leaves it in the list
DbPopKeepsInPool(t) ==
    /\ pc[t] \in PopPcs
    /\ IF connections # << >>
       THEN /\ conn' = [conn EXCEPT ![t] = connections[Len(connections)]]
            /\ UNCHANGED connections
            /\ pc' = [pc EXCEPT ![t] = ExecOf(pc[t])]
            /\ UNCHANGED <<offline_log_queue, is_syncing, new_record, record,
                           temp_queue, produced, rs_outcome, working, failed_at>>
       ELSE /\ RaiseOther(t)
            /\ UNCHANGED connections
    /\ UNCHANGED <<db_up, stop_logs, ultimas_paradas>>
    /\ UNCHANGED tracker
    /\ UNCHANGED nonSyncVars

\* get_connection, "return self._connections.pop()": list.pop() of an empty
\* list raises IndexError
DbPop(t) ==
    /\ pc[t] \in PopPcs
    /\ IF connections # << >>
       THEN /\ conn' = [conn EXCEPT ![t] = connections[Len(connections)]]
            /\ connections' = SubSeq(connections, 1, Len(connections) - 1)
            /\ pc' = [pc EXCEPT ![t] = ExecOf(pc[t])]
            /\ UNCHANGED <<offline_log_queue, is_syncing, new_record, record,
                           temp_queue, produced, rs_outcome, working, failed_at>>
       ELSE /\ RaiseOther(t)
            /\ UNCHANGED connections
    /\ UNCHANGED <<db_up, stop_logs, ultimas_paradas>>
    /\ UNCHANGED tracker
    /\ UNCHANGED nonSyncVars

\* a mariadb.Error raised by a write of thread t at pc p: record_stop queues
\* new_record and returns (lines 68-71); the sync pass goes to re-queue
\* (lines 212-217)
CatchMariadb(t, p) ==
    IF InSyncCode(p)
    THEN /\ pc' = [pc EXCEPT ![t] = "sy_requeue"]
         /\ failed_at' = [failed_at EXCEPT ![t] = CurrentEntry(t)]
         /\ UNCHANGED <<offline_log_queue, rs_outcome>>
    ELSE /\ offline_log_queue' = Append(offline_log_queue, new_record)
         /\ pc' = [pc EXCEPT ![t] = "idle"]
         /\ rs_outcome' = "queued"
         /\ UNCHANGED failed_at

\* _insert_log_record lines 81-104 / _update_last_stop lines 112-163: the
\* statements and the commit, then "finally: release_connection(conn)"
DbExec(t) ==
    /\ pc[t] \in ExecPcs
    /\ connections' = Append(connections, conn[t])
    /\ conn' = [conn EXCEPT ![t] = 0]
    /\ IF db_up
       THEN /\ IF pc[t] \in {"rs_insert_exec", "sy_insert_exec"}
               THEN /\ stop_logs' = stop_logs \cup {WrittenRecord(t, pc[t])}
                    /\ UNCHANGED ultimas_paradas
               ELSE /\ ultimas_paradas' = WrittenRecord(t, pc[t])
                    /\ UNCHANGED stop_logs
            /\ pc' = [pc EXCEPT ![t] = AfterExec(pc[t])]
            /\ record' = IF pc[t] = "sy_update_exec"
                         THEN [record EXCEPT ![t] = 0] ELSE record
            /\ UNCHANGED <<offline_log_queue, rs_outcome, failed_at>>
       ELSE /\ CatchMariadb(t, pc[t])
            /\ UNCHANGED <<stop_logs, ultimas_paradas, record>>
    /\ UNCHANGED <<db_up, is_syncing, new_record, temp_queue, produced, working>>
    /\ UNCHANGED tracker
    /\ UNCHANGED nonSyncVars

\* record_stop lines 64-67: sync if the queue is not empty, else return
RecordStopCheck ==
    /\ pc["fg"] = "rs_check"
    /\ IF Len(offline_log_queue) > 0
       THEN /\ pc' = [pc EXCEPT !["fg"] = "sy_enter"]
            /\ UNCHANGED rs_outcome
       ELSE /\ pc' = [pc EXCEPT !["fg"] = "idle"]
            /\ rs_outcome' = "ok"
    /\ UNCHANGED <<dbVars, offline_log_queue, is_syncing, conn, new_record,
                   record, temp_queue, produced, working, failed_at>>
    /\ UNCHANGED tracker
    /\ UNCHANGED nonSyncVars

\* the flag test of lines 183-186 without the early return
SyncEnterUnguarded(t) ==
    /\ pc[t] = "sy_enter"
    /\ is_syncing' = TRUE
    /\ pc' = [pc EXCEPT ![t] = "sy_drain"]
    /\ working' = [working EXCEPT ![t] = << >>]
    /\ failed_at' = [failed_at EXCEPT ![t] = 0]
    /\ UNCHANGED rs_outcome
    /\ UNCHANGED <<dbVars, offline_log_queue, conn, new_record, record,
                   temp_queue, produced>>
    /\ UNCHANGED tracker
    /\ UNCHANGED nonSyncVars

\* _sync_offline_logs lines 183-186, one step under _sync_lock: return if a
\* pass is in progress, else take the flag
SyncEnter(t) ==
    /\ pc[t] = "sy_enter"
    /\ IF is_syncing
       THEN /\ pc' = [pc EXCEPT ![t] = "idle"]
            /\ rs_outcome' = IF t = "fg" THEN "ok" ELSE rs_outcome
            /\ UNCHANGED <<is_syncing, working, failed_at>>
       ELSE /\ is_syncing' = TRUE
            /\ pc' = [pc EXCEPT ![t] = "sy_drain"]
            /\ working' = [working EXCEPT ![t] = << >>]
            /\ failed_at' = [failed_at EXCEPT ![t] = 0]
            /\ UNCHANGED rs_outcome
    /\ UNCHANGED <<dbVars, offline_log_queue, conn, new_record, record,
                   temp_queue, produced>>
    /\ UNCHANGED tracker
    /\ UNCHANGED nonSyncVars

\* lines 189-191: move the queue into temp_queue, one entry per iteration
SyncDrain(t) ==
    /\ pc[t] = "sy_drain"
    /\ IF offline_log_queue # << >>
       THEN /\ temp_queue' = [temp_queue EXCEPT
                                 ![t] = Append(@, Head(offline_log_queue))]
            /\ working' = [working EXCEPT
                                 ![t] = Append(@, Head(offline_log_queue))]
            /\ offline_log_queue' = Tail(offline_log_queue)
            /\ UNCHANGED pc
       ELSE /\ pc' = [pc EXCEPT ![t] = "sy_loop"]
            /\ UNCHANGED <<temp_queue, working, offline_log_queue>>
    /\ UNCHANGED <<dbVars, is_syncing, conn, new_record, record, produced,
                   rs_outcome, failed_at>>
    /\ UNCHANGED tracker
    /\ UNCHANGED nonSyncVars

\* lines 193-209: leave the loop when temp_queue is empty; else take the next
\* record and build its StopTracker (which may start the sync thread)
SyncLoop(t) ==
    /\ pc[t] = "sy_loop"
    /\ IF temp_queue[t] = << >>
       THEN /\ pc' = [pc EXCEPT ![t] = "sy_release"]
            /\ UNCHANGED <<record, temp_queue>>
       ELSE /\ record' = [record EXCEPT ![t] = Head(temp_queue[t])]
            /\ temp_queue' = [temp_queue EXCEPT ![t] = Tail(@)]
            /\ pc' = [SpawnedPc(t) EXCEPT ![t] = "sy_insert_get"]
    /\ UNCHANGED <<dbVars, offline_log_queue, is_syncing, conn, new_record,
                   produced, rs_outcome, working, failed_at>>
    /\ UNCHANGED tracker
    /\ UNCHANGED nonSyncVars

\* lines 213-217: put the failed record back, then the rest of temp_queue,
\* one put per step; then break
SyncRequeue(t) ==
    /\ pc[t] = "sy_requeue"
    /\ IF record[t] # 0
       THEN /\ offline_log_queue' = Append(offline_log_queue, record[t])
            /\ record' = [record EXCEPT ![t] = 0]
            /\ UNCHANGED <<temp_queue, pc>>
       ELSE IF temp_queue[t] # << >>
            THEN /\ offline_log_queue' =
                        Append(offline_log_queue, Head(temp_queue[t]))
                 /\ temp_queue' = [temp_queue EXCEPT ![t] = Tail(@)]
                 /\ UNCHANGED <<record, pc>>
            ELSE /\ pc' = [pc EXCEPT ![t] = "sy_release"]
                 /\ UNCHANGED <<offline_log_queue, record, temp_queue>>
    /\ UNCHANGED <<dbVars, is_syncing, conn, new_record, produced, rs_outcome,
                   working, failed_at>>
    /\ UNCHANGED tracker
    /\ UNCHANGED nonSyncVars

\* lines 219-221: release the flag and return (in "fg": to record_stop, which
\* returns)
SyncRelease(t) ==
    /\ pc[t] = "sy_release"
    /\ is_syncing' = FALSE
    /\ pc' = [pc EXCEPT ![t] = "idle"]
    /\ rs_outcome' = IF t = "fg" THEN "ok" ELSE rs_outcome
    /\ UNCHANGED <<dbVars, offline_log_queue, conn, new_record, record,
                   temp_queue, produced, working, failed_at>>
    /\ UNCHANGED tracker
    /\ UNCHANGED nonSyncVars

\* the relational store becomes unreachable / reachable again
DbToggle ==
    /\ db_up' = ~db_up
    /\ UNCHANGED <<connections, stop_logs, ultimas_paradas, syncVars>>
    /\ UNCHANGED nonSyncVars

(***************************************************************************)
(* database.py: OfflineMode, DatabaseOperations (the DynamoDB write path). *)
(*                                                                         *)
(* A record is the dict handed to the write calls, reduced to the fields   *)
(* the code reads: BUSS_ID and Time.  Time is a datetime or, after         *)
(* json.dump(default=str) and json.load, its string; t, the production     *)
(* number of the record, stands for the instant, and tz for the kind of    *)
(* tzinfo a datetime carries: "pytz" as built by datetime.now(pytz zone),  *)
(* "fixed" (a datetime.timezone) as parsed back from a string, which       *)
(* renders the zone as its UTC offset only ("offset").                     *)
(* offline_files lists the directory's files by modification time, oldest  *)
(* first; a file holds the list of records json.load would return (a       *)
(* last_stop file: one record).                                            *)
(***************************************************************************)
Vehicles == {"bus_1", "bus_2"}

Tables == {"t1", "t2"}

\* PI_CONFIG['batch_size']
batch_size == 25

Rec(v, n) ==
    [BUSS_ID |-> v, Time |-> [tag |-> "datetime", t |-> n, tz |-> "pytz"]]

\* json.dump(record, f, default=str) then json.load: a datetime comes back
\* as the string str(datetime)
JsonRecord(r) ==
    [r EXCEPT !.Time = [tag |-> "str", t |-> r.Time.t, tz |-> "offset"]]

JsonRecords(rs) == [i \in 1..Len(rs) |-> JsonRecord(rs[i])]

\* the conversion of lines 299-301 left out: times stay strings
ParseTimesKeepsStrings(rs) == rs

\* sync_offline_data lines 299-301: datetime.fromisoformat on string times
ParseTimes(rs) ==
    [i \in 1..Len(rs) |->
        IF rs[i].Time.tag = "str"
        THEN [rs[i] EXCEPT
                 !.Time = [tag |-> "datetime", t |-> rs[i].Time.t,
                           tz |-> "fixed"]]
        ELSE rs[i]]

\* _convert_to_dynamo_item: Time is isoformat() of a datetime, str() otherwise
Item(r) ==
    [BUSS_ID |-> r.BUSS_ID,
     Time |-> [fmt |-> IF r.Time.tag = "datetime" THEN "iso" ELSE "str",
               t |-> r.Time.t]]

NoItem == [BUSS_ID |-> "", Time |-> [fmt |-> "", t |-> 0]]

\* f"last_stop_{record['BUSS_ID']}.json" / f"route_data_{table_name}.json"
LastStopFile(v) == <<"last_stop", v>>

RouteDataFile(tbl) == <<"route_data", tbl>>

HasFile(files, name) == \E i \in 1..Len(files) : files[i].name = name

FileData(files, name) ==
    files[CHOOSE i \in 1..Len(files) : files[i].name = name].data

\* os.remove(filepath)
RemoveFile(files, name) == SelectSeq(files, LAMBDA f : f.name # name)

\* a write that adds an entry next to the one of the same name
WriteFileAppends(files, name, data) ==
    Append(files, [name |-> name, data |-> [i \in 1..Len(data) |->
        [data[i] EXCEPT !.Time = [tag |-> "str", t |-> data[i].Time.t,
                                  tz |-> "offset"]]]])

\* open(filepath, 'w') + json.dump: the file is created or replaced, and is
\* then the most recently modified one
WriteFile(files, name, data) ==
    Append(RemoveFile(files, name), [name |-> name, data |-> JsonRecords(data)])

\* the records (by production number) held in a list of records / of files
RecIds(rs) == {rs[i].Time.t : i \in 1..Len(rs)}

FileIds(files) == UNION {RecIds(files[i].data) : i \in 1..Len(files)}

\* the state the write path acts on, as one value
Store ==
    [items |-> dynamo_items, written |-> dynamo_written,
     files |-> offline_files, size |-> current_size,
     evicted |-> evicted, superseded |-> superseded]

\* the loop of lines 133-136 lowering the counter without deleting a file
CleanupLoopCounterOnly(files, size) ==
    [files |-> files,
     size |-> IF files # << >> /\ 10 * size > 8 * MaxOfflineStorage
              THEN (8 * MaxOfflineStorage) \div 10 ELSE size]

\* the loop of lines 133-136 deleting the newest file first (files.pop())
RECURSIVE CleanupLoopNewestFirst(_, _)
CleanupLoopNewestFirst(files, size) ==
    IF 10 * size > 8 * MaxOfflineStorage /\ files # << >>
    THEN LET r == CleanupLoopNewestFirst(SubSeq(files, 1, Len(files) - 1),
                                         size - 1)
         IN r
    ELSE [files |-> files, size |-> size]

\* _cleanup_oldest_files lines 133-136: delete oldest files while the counter
\* exceeds 80% of the maximum and files are left
RECURSIVE CleanupLoop(_, _)
CleanupLoop(files, size) ==
    IF 10 * size > 8 * MaxOfflineStorage /\ files # << >>
    THEN CleanupLoop(Tail(files), size - 1)
    ELSE [files |-> files, size |-> size]

\* save_last_stop / save_route_data evicting only above the maximum
OfflineSaveEvictsLate(st, name, data) ==
    LET c == IF st.size > MaxOfflineStorage
             THEN CleanupLoop(st.files, st.size)
             ELSE [files |-> st.files, size |-> st.size]
    IN [st EXCEPT !.files = WriteFile(c.files, name, data),
                  !.size = c.size + 1]

\* OfflineMode.save_last_stop / save_route_data (the two differ in the file
\* name only): evict if the counter is at the maximum, write, count
OfflineSave(st, name, data) ==
    LET c == IF st.size >= MaxOfflineStorage
             THEN CleanupLoop(st.files, st.size)
             ELSE [files |-> st.files, size |-> st.size]
        old == IF HasFile(c.files, name)
               THEN RecIds(FileData(c.files, name)) ELSE {}
    IN [st EXCEPT
          !.files = WriteFile(c.files, name, data),
          !.size = c.size + 1,
          !.evicted = @ \cup (FileIds(st.files) \ FileIds(c.files)),
          !.superseded = @ \cup (old \ RecIds(data))]

\* OfflineMode.get_pending_data: the route_data_ files, by table name
get_pending_data(files) ==
    [tbl \in {x \in Tables : HasFile(files, RouteDataFile(x))} |->
        FileData(files, RouteDataFile(tbl))]

\* OfflineMode.clear_synced_data
clear_synced_data(st, tbl) ==
    IF HasFile(st.files, RouteDataFile(tbl))
    THEN [st EXCEPT !.files = RemoveFile(@, RouteDataFile(tbl)),
                    !.size = @ - 1]
    ELSE st

\* put_item per record, in order: an item replaces the one of the same key
RECURSIVE PutItems(_, _)
PutItems(st, rs) ==
    IF rs = << >>
    THEN st
    ELSE PutItems([st EXCEPT !.items[Head(rs).BUSS_ID] = Item(Head(rs)),
                             !.written = @ \cup {Head(rs).Time.t}],
                  Tail(rs))

\* number of chunks of save_route_data's loop, range(0, len(records), batch_size)
NumChunks(n) == (n + batch_size - 1) \div batch_size

\* the records of the chunks before chunk f
ChunksBefore(rs, f) ==
    SubSeq(rs, 1, IF (f - 1) * batch_size < Len(rs) THEN (f - 1) * batch_size
                  ELSE Len(rs))

\* whether a call attempts a backend write of n records
Attempts(n) == dynamo_available /\ n > 0

\* how a backend write of n records can go: f = 0, every request succeeds;
\* f > 0, the request of chunk f raises (chunk 1 if DynamoDB is down at the
\* call, a later chunk if it goes down during it)
FailChoices(n) ==
    IF ~Attempts(n) THEN {0}
    ELSE IF dynamo_up THEN {0} \cup (2..NumChunks(n))
    ELSE {1}

\* DatabaseOperations.update_last_stop
update_last_stop(st, rec, f) ==
    IF dynamo_available
    THEN IF f = 0
         THEN PutItems(st, <<rec>>)
         ELSE OfflineSave(st, LastStopFile(rec.BUSS_ID), <<rec>>)
    ELSE OfflineSave(st, LastStopFile(rec.BUSS_ID), <<rec>>)

\* DatabaseOperations.save_route_data
save_route_data(st, tbl, recs, f) ==
    IF dynamo_available /\ recs # << >>
    THEN IF f = 0
         THEN PutItems(st, recs)
         ELSE OfflineSave(PutItems(st, ChunksBefore(recs, f)),
                          RouteDataFile(tbl), recs)
    ELSE OfflineSave(st, RouteDataFile(tbl), recs)

\* one iteration of sync_offline_data's loop, lines 297-304
sync_table(st, tbl, recs, f) ==
    clear_synced_data(save_route_data(st, tbl, ParseTimes(recs), f), tbl)

SetStore(st) ==
    /\ dynamo_items' = st.items
    /\ dynamo_written' = st.written
    /\ offline_files' = st.files
    /\ current_size' = st.size
    /\ evicted' = st.evicted
    /\ superseded' = st.superseded

\* last_op: the call made, its key (vehicle or table), whether its backend
\* write failed and whether it queued; for the calls made on OfflineMode
\* directly also the payload and the number of files before the call
Op(name, key, failed, queued) ==
    [op |-> name, key |-> key, failed |-> failed, queued |-> queued,
     payload |-> << >>, before |-> 0]

OfflineOp(name, key, payload) ==
    [op |-> name, key |-> key, failed |-> FALSE, queued |-> TRUE,
     payload |-> payload, before |-> Len(offline_files)]

\* a caller's DatabaseOperations.update_last_stop(record) for vehicle v
UpdateLastStop(v, f) ==
    /\ disk_produced < MaxDiskRecords
    /\ f \in FailChoices(1)
    /\ SetStore(update_last_stop(Store, Rec(v, disk_produced + 1), f))
    /\ disk_produced' = disk_produced + 1
    /\ accepted' = accepted \cup {disk_produced + 1}
    /\ dynamo_up' = IF Attempts(1) THEN f = 0 ELSE dynamo_up
    /\ last_op' = Op("update_last_stop", v, f > 0, ~dynamo_available \/ f > 0)
    /\ UNCHANGED <<dynamo_available, sod_pc, pending_data>>
    /\ UNCHANGED nonDiskVars

\* a caller's DatabaseOperations.save_route_data(table_name, records), the
\* records being of the vehicles vs
SaveRouteData(tbl, vs, f) ==
    /\ disk_produced + Len(vs) <= MaxDiskRecords
    /\ f \in FailChoices(Len(vs))
    /\ LET recs == [i \in 1..Len(vs) |-> Rec(vs[i], disk_produced + i)]
       IN /\ SetStore(save_route_data(Store, tbl, recs, f))
          /\ accepted' = accepted \cup RecIds(recs)
    /\ disk_produced' = disk_produced + Len(vs)
    /\ dynamo_up' = IF Attempts(Len(vs)) THEN f = 0 ELSE dynamo_up
    /\ last_op' = Op("save_route_data", tbl, f > 0, ~Attempts(Len(vs)) \/ f > 0)
    /\ UNCHANGED <<dynamo_available, sod_pc, pending_data>>
    /\ UNCHANGED nonDiskVars

\* sync_offline_data lines 287-294: return False if the client is missing,
\* True if nothing is pending, else enter the loop over pending_data
SyncOfflineBegin ==
    /\ sod_pc = "idle"
    /\ IF dynamo_available /\ DOMAIN get_pending_data(offline_files) # {}
       THEN /\ sod_pc' = "loop"
            /\ pending_data' = get_pending_data(offline_files)
       ELSE UNCHANGED <<sod_pc, pending_data>>
    /\ last_op' = Op("sync_offline_data", "", FALSE, FALSE)
    /\ UNCHANGED <<dynamo_available, dynamo_up, dynamo_items, offline_files,
                   current_size, disk_produced, dynamo_written, accepted,
                   evicted, superseded>>
    /\ UNCHANGED nonDiskVars

\* sync_offline_data lines 297-306: one iteration of the loop (dict order is
\* os.listdir order: any); after the last one the function returns True
SyncOfflineStep(tbl, f) ==
    /\ sod_pc = "loop"
    /\ tbl \in DOMAIN pending_data
    /\ f \in FailChoices(Len(pending_data[tbl]))
    /\ SetStore(sync_table(Store, tbl, pending_data[tbl], f))
    /\ pending_data' = [x \in DOMAIN pending_data \ {tbl} |-> pending_data[x]]
    /\ sod_pc' = IF DOMAIN pending_data = {tbl} THEN "idle" ELSE "loop"
    /\ dynamo_up' = IF Attempts(Len(pending_data[tbl])) THEN f = 0 ELSE dynamo_up
    /\ last_op' = Op("sync_table", tbl, f > 0, FALSE)
    /\ UNCHANGED <<dynamo_available, disk_produced, accepted>>
    /\ UNCHANGED nonDiskVars

\* DynamoDB becomes unreachable / reachable again
DynamoToggle ==
    /\ dynamo_up' = ~dynamo_up
    /\ last_op' = Op("env", "", FALSE, FALSE)
    /\ UNCHANGED <<dynamo_available, dynamo_items, offline_files, current_size,
                   sod_pc, pending_data, disk_produced, dynamo_written,
                   accepted, evicted, superseded>>
    /\ UNCHANGED nonDiskVars

(***************************************************************************)
(* database.py: OfflineMode called directly (any sequence of its calls).   *)
(***************************************************************************)
\* offline_mode.save_last_stop(record), the record being of vehicle v
OfflineSaveLastStop(v) ==
    /\ disk_produced < MaxDiskRecords
    /\ LET rec == Rec(v, disk_produced + 1)
       IN /\ SetStore(OfflineSave(Store, LastStopFile(v), <<rec>>))
          /\ last_op' = OfflineOp("save_last_stop", LastStopFile(v), <<rec>>)
    /\ disk_produced' = disk_produced + 1
    /\ UNCHANGED <<dynamo_available, dynamo_up, sod_pc, pending_data, accepted>>
    /\ UNCHANGED nonDiskVars

\* offline_mode.save_route_data(table_name, records), the records being of
\* the vehicles vs
OfflineSaveRouteData(tbl, vs) ==
    /\ disk_produced + Len(vs) <= MaxDiskRecords
    /\ LET recs == [i \in 1..Len(vs) |-> Rec(vs[i], disk_produced + i)]
       IN /\ SetStore(OfflineSave(Store, RouteDataFile(tbl), recs))
          /\ last_op' = OfflineOp("save_route_data", RouteDataFile(tbl), recs)
    /\ disk_produced' = disk_produced + Len(vs)
    /\ UNCHANGED <<dynamo_available, dynamo_up, sod_pc, pending_data, accepted>>
    /\ UNCHANGED nonDiskVars

\* offline_mode.clear_synced_data(table_name)
OfflineClearSyncedData(tbl) ==
    /\ SetStore(clear_synced_data(Store, tbl))
    /\ last_op' = OfflineOp("clear_synced_data", RouteDataFile(tbl), << >>)
    /\ UNCHANGED <<dynamo_available, dynamo_up, sod_pc, pending_data,
                   disk_produced, accepted>>
    /\ UNCHANGED nonDiskVars

(***************************************************************************)
(* database.py: OfflineMode.save_last_stop / save_route_data called from   *)
(* two threads.  OfflineMode holds no lock; a call is run in the steps     *)
(* between which the interpreter can switch threads: the threshold test    *)
(* with the cleanup it may call, the write of the file, and the read and   *)
(* the write of "self._current_size += 1".                                 *)
(***************************************************************************)
\* thread t calls save_last_stop (name last_stop_<v>) or save_route_data
\* (name route_data_<tbl>) with the records data
OmCall(t, name, vs) ==
    /\ om_pc[t] = "idle"
    /\ Len(vs) >= 1
    /\ name[1] = "last_stop" => vs = <<name[2]>>
    /\ disk_produced + Len(vs) <= MaxConcurrentRecords
    /\ om_pc' = [om_pc EXCEPT ![t] = "check"]
    /\ om_name' = [om_name EXCEPT ![t] = name]
    /\ om_data' = [om_data EXCEPT
                     ![t] = [i \in 1..Len(vs) |-> Rec(vs[i], disk_produced + i)]]
    /\ disk_produced' = disk_produced + Len(vs)
    /\ UNCHANGED <<dynamo_available, dynamo_up, dynamo_items, offline_files,
                   current_size, sod_pc, pending_data, dynamo_written, accepted,
                   evicted, superseded, last_op, om_loaded>>
    /\ UNCHANGED nonOmVars

\* lines 72-73 / 86-87: the threshold test and _cleanup_oldest_files
OmCheck(t) ==
    /\ om_pc[t] = "check"
    /\ LET c == IF current_size >= MaxOfflineStorage
                THEN CleanupLoop(offline_files, current_size)
                ELSE [files |-> offline_files, size |-> current_size]
       IN /\ offline_files' = c.files
          /\ current_size' = c.size
          /\ evicted' = evicted \cup (FileIds(offline_files) \ FileIds(c.files))
    /\ om_pc' = [om_pc EXCEPT ![t] = "write"]
    /\ UNCHANGED <<dynamo_available, dynamo_up, dynamo_items, sod_pc,
                   pending_data, disk_produced, dynamo_written, accepted,
                   superseded, last_op, om_name, om_data, om_loaded>>
    /\ UNCHANGED nonOmVars

\* lines 79-80 / 93-94: open(filepath, 'w') and json.dump
OmWrite(t) ==
    /\ om_pc[t] = "write"
    /\ offline_files' = WriteFile(offline_files, om_name[t], om_data[t])
    /\ superseded' = superseded \cup
          (IF HasFile(offline_files, om_name[t])
           THEN RecIds(FileData(offline_files, om_name[t])) \ RecIds(om_data[t])
           ELSE {})
    /\ om_pc' = [om_pc EXCEPT ![t] = "load"]
    /\ UNCHANGED <<dynamo_available, dynamo_up, dynamo_items, current_size,
                   sod_pc, pending_data, disk_produced, dynamo_written, accepted,
                   evicted, last_op, om_name, om_data, om_loaded>>
    /\ UNCHANGED nonOmVars

\* lines 81 / 95, "self._current_size += 1": the read
OmLoad(t) ==
    /\ om_pc[t] = "load"
    /\ om_loaded' = [om_loaded EXCEPT ![t] = current_size]
    /\ om_pc' = [om_pc EXCEPT ![t] = "store"]
    /\ UNCHANGED <<diskVars, om_name, om_data>>
    /\ UNCHANGED nonOmVars

\* lines 81 / 95, "self._current_size += 1": the write; the call returns
OmStore(t) ==
    /\ om_pc[t] = "store"
    /\ current_size' = om_loaded[t] + 1
    /\ om_pc' = [om_pc EXCEPT ![t] = "idle"]
    /\ om_name' = [om_name EXCEPT ![t] = << >>]
    /\ om_data' = [om_data EXCEPT ![t] = << >>]
    /\ om_loaded' = [om_loaded EXCEPT ![t] = 0]
    /\ UNCHANGED <<dynamo_available, dynamo_up, dynamo_items, offline_files,
                   sod_pc, pending_data, disk_produced, dynamo_written, accepted,
                   evicted, superseded, last_op>>
    /\ UNCHANGED nonOmVars

(***************************************************************************)
(* logic.py: RouteCache, and main.py: initialize_system.                   *)
(*                                                                         *)
(* Only the main thread runs this code (get_routes is called at startup,   *)
(* before any StopTracker exists).  Times are in seconds; the clock moves  *)
(* in ticks of 20 minutes.  A route is reduced to id, stops and            *)
(* route_type; a route table is a function from route ids to routes.       *)
(***************************************************************************)
\* a row of RUTAS: PARADAS is the comma-separated text of the stop names,
\* written here as the list of the names it joins
Row(id, n, rt) ==
    [ID |-> id, PARADAS |-> [joined |-> RouteStops(n)], TIPO |-> rt]

\* the contents of RUTAS explored
StoreContents ==
    {{}, {Row("R1", 3, 2)}, {Row("R1", 2, 2), Row("R2", 3, 1)}}

\* stops.split(',')
Split(text) == text.joined

\* _load_routes lines 255-266: the BusRoute built from a row
BusRouteOf(row) ==
    [kind |-> "BusRoute", id |-> row.ID, stops |-> Split(row.PARADAS),
     route_type |-> row.TIPO]

RoutesOfRows(rows) ==
    [id \in {r.ID : r \in rows} |-> BusRouteOf(CHOOSE r \in rows : r.ID = id)]

\* a snapshot that writes every route as a one-way (type 1) route
SerializableLosesType(table) ==
    [id \in DOMAIN table |->
        [kind |-> "dict", id |-> table[id].id, stops |-> table[id].stops,
         route_type |-> 1]]

\* _save_routes_to_cache lines 282-294: the dict that json.dump writes
Serializable(table) ==
    [id \in DOMAIN table |->
        [kind |-> "dict", id |-> table[id].id, stops |-> table[id].stops,
         route_type |-> table[id].route_type]]

\* _load_routes_from_cache lines 305-316: the BusRoutes built from the file
RoutesOfCache(data) ==
    [id \in DOMAIN data |->
        [kind |-> "BusRoute", id |-> data[id].id, stops |-> data[id].stops,
         route_type |-> data[id].route_type]]

\* RouteCache._routes: None, or a table
NoRoutes == [loaded |-> FALSE, table |-> << >>]

Loaded(table) == [loaded |-> TRUE, table |-> table]

\* routes_cache.json: absent, or holding a snapshot
NoFile == [exists |-> FALSE, data |-> << >>]

Snapshot(table) == [exists |-> TRUE, data |-> Serializable(table)]

\* get_routes lines 235-237: whether the call loads
NeedsLoad(force) ==
    \/ ~routes.loaded
    \/ force
    \/ (last_update # -1 /\ now - last_update > 3600)

\* _load_routes_from_cache: the new _routes and _last_update
load_routes_from_cache(file) ==
    IF file.exists
    THEN [routes |-> Loaded(RoutesOfCache(file.data)), last_update |-> now]
    ELSE [routes |-> Loaded(<< >>), last_update |-> last_update]

\* initialize_system that goes on to the interactive loop whatever the table
AfterReturnAlwaysRuns(startup, table) == "running"

\* initialize_system lines 52-54, after get_routes returned: RuntimeError if
\* the table is empty; a later caller goes on
AfterReturn(startup, table) ==
    IF startup /\ table = << >> THEN "fatal" ELSE "running"

\* _register_bus lines 65-66: get_connection (polls while the pool is empty)
RegisterBusGet ==
    /\ main_pc = "rb_get"
    /\ connections # << >>
    /\ lr_conn' = connections[Len(connections)]
    /\ connections' = SubSeq(connections, 1, Len(connections) - 1)
    /\ main_pc' = "rb_exec"
    /\ UNCHANGED <<db_up, routes, last_update, cache_file, now, rutas, gr,
                   config_set, last_store_load, last_loaded>>
    /\ UNCHANGED nonCacheVars

\* _register_bus lines 67-114: the statements (any exception is caught and
\* logged), then "finally: release_connection(conn)"; initialize_system goes
\* on to get_routes()
RegisterBusExec ==
    /\ main_pc = "rb_exec"
    /\ connections' = Append(connections, lr_conn)
    /\ lr_conn' = 0
    /\ main_pc' = "gr_call"
    /\ UNCHANGED <<db_up, routes, last_update, cache_file, now, rutas, gr,
                   config_set, last_store_load, last_loaded>>
    /\ UNCHANGED nonCacheVars

\* get_routes(force_refresh) lines 235-239: the startup's call (no force) or
\* a later one; returns the cached table unless the test says to load
GetRoutes(force) ==
    /\ main_pc \in {"gr_call", "running"}
    /\ main_pc = "gr_call" => ~force
    /\ gr' = [force |-> force,
              none |-> ~routes.loaded,
              since |-> IF last_store_load = -1 THEN -1
                        ELSE now - last_store_load,
              startup |-> main_pc = "gr_call",
              queried |-> FALSE,
              failed |-> FALSE,
              config_error |-> FALSE,
              fell_back |-> FALSE,
              outcome |-> IF NeedsLoad(force) THEN "running" ELSE "returned",
              result |-> IF NeedsLoad(force) THEN << >> ELSE routes.table]
    /\ main_pc' = IF NeedsLoad(force) THEN "lr_get"
                  ELSE AfterReturn(main_pc = "gr_call", routes.table)
    /\ UNCHANGED <<connections, db_up, routes, last_update, cache_file, now,
                   rutas, lr_conn, config_set, last_store_load, last_loaded>>
    /\ UNCHANGED nonCacheVars

\* _load_routes lines 243-244: get_connection (polls while the pool is empty)
LoadRoutesGet ==
    /\ main_pc = "lr_get"
    /\ connections # << >>
    /\ lr_conn' = connections[Len(connections)]
    /\ connections' = SubSeq(connections, 1, Len(connections) - 1)
    /\ main_pc' = "lr_exec"
    /\ UNCHANGED <<db_up, routes, last_update, cache_file, now, rutas, gr,
                   config_set, last_store_load, last_loaded>>
    /\ UNCHANGED nonCacheVars

\* _load_routes lines 245-276: the test of the configuration, which raises
\* ValueError inside the try, and the query; on success the new table, the
\* snapshot and the stamp; on mariadb.Error and on ValueError the handler of
\* line 271, which falls back to the snapshot; "finally" the release; then
\* get_routes returns self._routes
LoadRoutesExec ==
    /\ main_pc = "lr_exec"
    /\ connections' = Append(connections, lr_conn)
    /\ lr_conn' = 0
    /\ IF config_set /\ db_up
       THEN LET table == RoutesOfRows(rutas)
            IN /\ routes' = Loaded(table)
               /\ cache_file' = Snapshot(table)
               /\ last_update' = now
               /\ last_store_load' = now
               /\ last_loaded' = Loaded(table)
       ELSE LET c == load_routes_from_cache(cache_file)
            IN /\ routes' = c.routes
               /\ last_update' = c.last_update
               /\ UNCHANGED <<cache_file, last_store_load, last_loaded>>
    /\ gr' = [gr EXCEPT !.queried = config_set,
                        !.failed = config_set /\ ~db_up,
                        !.config_error = ~config_set,
                        !.fell_back = ~(config_set /\ db_up),
                        !.outcome = "returned", !.result = routes'.table]
    /\ main_pc' = AfterReturn(gr.startup, routes'.table)
    /\ UNCHANGED <<db_up, now, rutas, config_set>>
    /\ UNCHANGED nonCacheVars

\* twenty minutes pass
Tick ==
    /\ now < MaxTicks * 1200
    /\ now' = now + 1200
    /\ UNCHANGED <<connections, db_up, routes, last_update, cache_file, rutas,
                   main_pc, lr_conn, config_set, gr, last_store_load,
                   last_loaded>>
    /\ UNCHANGED nonCacheVars

\* the operator of the reference store changes the routes of the region
StoreUpdate(rows) ==
    /\ rows # rutas
    /\ rutas' = rows
    /\ UNCHANGED <<connections, db_up, routes, last_update, cache_file, now,
                   main_pc, lr_conn, config_set, gr, last_store_load,
                   last_loaded>>
    /\ UNCHANGED nonCacheVars

(***************************************************************************)
(* main.py: run_interactive_loop and operation_loop, run by the main       *)
(* thread ("fg") around the record_stop calls.  A record built by          *)
(* record_stop is kept in records under its production number.             *)
(***************************************************************************)
\* record_stop lines 44-58, called by the main thread whose view of the
\* threads is pcs: build new_record from the bus as it stands (stop is
\* bus.current_stop), then go on to the writes
RecordStopCall(pcs, stop) ==
    /\ produced' = produced + 1
    /\ new_record' = produced + 1
    /\ rs_outcome' = "none"
    /\ pc' = [pcs EXCEPT !["fg"] = "rs_insert_get"]
    /\ records' = Append(records, [n |-> produced + 1, Current_Stop |-> stop])

\* run_interactive_loop lines 128-141: Bus(...), set_direction(choice),
\* StopTracker(...) (which starts the sync thread unless one is alive) and
\* the call of record_stop for the starting stop
SelectRoute(choice) ==
    /\ loop_pc = "select"
    /\ pc["fg"] = "idle"
    /\ trips < MaxTrips
    /\ produced < MaxRecords
    /\ bus' = "active"
    /\ trips' = trips + 1
    /\ current_stop_index' = 0
    /\ direction' = SetDirectionDir(route_type, choice)
    /\ stops' = SetDirectionStops(route_type, choice, stops)
    /\ visited' = << [index |-> 0, direction |-> SetDirectionDir(route_type, choice)] >>
    /\ tracker' = TRUE
    /\ RecordStopCall(SpawnedPc("fg"), SetDirectionStops(route_type, choice, stops)[1])
    /\ loop_pc' = "trip_start"
    /\ UNCHANGED <<route_type, dbVars, offline_log_queue, is_syncing, conn,
                   record, temp_queue, working, failed_at, exit_event,
                   advance_event, unserved>>
    /\ UNCHANGED nonLoopVars

\* record_stop is over.  If it returned: announce_stop, then operation_loop
\* (entered at line 144, or its next iteration), which is left at once when
\* exit_event is set and otherwise begins with advance_event.clear() (line
\* 158).  If it raised: the handler of lines 146-149, and the route prompt
\* again.
RecordStopReturn ==
    /\ loop_pc \in {"trip_start", "advanced"}
    /\ pc["fg"] = "idle"
    /\ IF rs_outcome = "raised" \/ exit_event
       THEN /\ loop_pc' = "select"
            /\ unserved' = FALSE
            /\ UNCHANGED advance_event
       ELSE /\ loop_pc' = "wait"
            /\ advance_event' = FALSE
            /\ UNCHANGED unserved
    /\ UNCHANGED <<busVars, dbVars, syncVars, exit_event, records>>
    /\ UNCHANGED nonLoopVars

\* operation_loop lines 160-166: advance_event is set; next_stop(), then the
\* call of record_stop
Advance ==
    /\ loop_pc = "wait"
    /\ ~exit_event
    /\ advance_event
    /\ unserved' = FALSE
    /\ produced < MaxRecords
    /\ Len(visited) <= MaxAdvances
    /\ LET p == NextPos(route_type, Len(stops), current_stop_index, direction)
       IN /\ current_stop_index' = p.index
          /\ direction' = p.direction
          /\ visited' = Append(visited, p)
          /\ RecordStopCall(pc, stops[p.index + 1])
    /\ loop_pc' = "advanced"
    /\ UNCHANGED <<route_type, stops, bus, trips, dbVars, offline_log_queue,
                   is_syncing, conn, record, temp_queue, working, failed_at,
                   tracker, exit_event, advance_event>>
    /\ UNCHANGED nonLoopVars

\* controller.request_advance (the advance button, or the terminal
\* listener): advance_event.set(), whatever the main thread is doing
AdvanceRequest ==
    /\ loop_pc \in {"select", "trip_start", "advanced", "wait"}
    /\ ~advance_event \/ (loop_pc = "advanced" /\ ~unserved)
    /\ advance_event' = TRUE
    /\ unserved' = (unserved \/ loop_pc = "advanced")
    /\ UNCHANGED <<busVars, dbVars, syncVars, loop_pc, exit_event, records>>
    /\ UNCHANGED nonLoopVars

\* controller.request_exit (the exit button): exit_event.set(); nothing
\* clears the event afterwards
ExitRequest ==
    /\ ~exit_event
    /\ exit_event' = TRUE
    /\ UNCHANGED <<busVars, dbVars, syncVars, loop_pc, advance_event, unserved,
                   records>>
    /\ UNCHANGED nonLoopVars

\* operation_loop lines 160-164: exit_event ends the wait and the loop;
\* run_interactive_loop prompts for a route again
LeaveLoop ==
    /\ loop_pc = "wait"
    /\ exit_event
    /\ loop_pc' = "select"
    /\ unserved' = FALSE
    /\ UNCHANGED <<busVars, dbVars, syncVars, exit_event, advance_event, records>>
    /\ UNCHANGED nonLoopVars

(***************************************************************************)
(* main.py: cleanup and _mark_bus_offline, run by the main thread when     *)
(* run_interactive_loop is left; the sync thread, a daemon, runs on.       *)
(***************************************************************************)
\* run_interactive_loop lines 120-122: 'q' at the route prompt; main() goes
\* to "finally: system.cleanup()"
Quit ==
    /\ loop_pc = "select"
    /\ pc["fg"] = "idle"
    /\ loop_pc' = "closing"
    /\ UNCHANGED <<busVars, dbVars, syncVars, exit_event, advance_event, unserved,
                   records>>
    /\ UNCHANGED nonLoopVars

\* cleanup line 182, DatabaseConnectionPool.close_all: close the pooled
\* connections, self._connections = []
CloseAll ==
    /\ loop_pc = "closing"
    /\ connections' = << >>
    /\ loop_pc' = "mark_get"
    /\ UNCHANGED <<busVars, db_up, stop_logs, ultimas_paradas, syncVars,
                   exit_event, advance_event, unserved,
                   records>>
    /\ UNCHANGED nonLoopVars

\* _mark_bus_offline line 194, get_connection: "while not
\* self._connections: time.sleep(0.1)"
MarkOfflineGet ==
    /\ loop_pc = "mark_get"
    /\ connections # << >>
    /\ loop_pc' = "mark_pop"
    /\ UNCHANGED <<busVars, dbVars, syncVars, exit_event, advance_event, unserved,
                   records>>
    /\ UNCHANGED nonLoopVars

\* get_connection, "return self._connections.pop()"; the IndexError of an
\* empty list is caught at line 203 and cleanup goes on
MarkOfflinePop ==
    /\ loop_pc = "mark_pop"
    /\ IF connections # << >>
       THEN /\ conn' = [conn EXCEPT !["fg"] = connections[Len(connections)]]
            /\ connections' = SubSeq(connections, 1, Len(connections) - 1)
            /\ loop_pc' = "mark_exec"
       ELSE /\ loop_pc' = "done"
            /\ UNCHANGED <<conn, connections>>
    /\ UNCHANGED <<busVars, db_up, stop_logs, ultimas_paradas,
                   offline_log_queue, is_syncing, pc, new_record, record,
                   temp_queue, produced, rs_outcome, working, failed_at,
                   tracker, exit_event, advance_event, unserved,
                   records>>
    /\ UNCHANGED nonLoopVars

\* _mark_bus_offline lines 195-207: the UPDATE (any exception is caught),
\* "finally" the release; cleanup logs "System shutdown complete"
MarkOfflineExec ==
    /\ loop_pc = "mark_exec"
    /\ connections' = Append(connections, conn["fg"])
    /\ conn' = [conn EXCEPT !["fg"] = 0]
    /\ loop_pc' = "done"
    /\ UNCHANGED <<busVars, db_up, stop_logs, ultimas_paradas,
                   offline_log_queue, is_syncing, pc, new_record, record,
                   temp_queue, produced, rs_outcome, working, failed_at,
                   tracker, exit_event, advance_event, unserved,
                   records>>
    /\ UNCHANGED nonLoopVars

(***************************************************************************)
(* Specifications.                                                         *)
(***************************************************************************)
BusInit ==
    /\ bus = "none"
    /\ current_stop_index = 0
    /\ direction = 1
    /\ visited = << >>
    /\ trips = 0

\* run_interactive_loop entered, at its first prompt
LoopInit ==
    /\ loop_pc = "select"
    /\ exit_event = FALSE
    /\ advance_event = FALSE
    /\ unserved = FALSE
    /\ records = << >>

\* RouteCache before the first get_routes, with no snapshot on disk
CacheInit ==
    /\ routes = NoRoutes
    /\ last_update = -1
    /\ cache_file = NoFile
    /\ now = 0
    /\ rutas = {}
    /\ main_pc = "rb_get"
    /\ lr_conn = 0
    /\ config_set = TRUE
    /\ gr = [force |-> FALSE, none |-> TRUE, since |-> -1, startup |-> TRUE,
             queried |-> FALSE, failed |-> FALSE, config_error |-> FALSE,
             fell_back |-> FALSE, outcome |-> "none", result |-> << >>]
    /\ last_store_load = -1
    /\ last_loaded = NoRoutes

SyncInit ==
    /\ stop_logs = {}
    /\ ultimas_paradas = 0
    /\ offline_log_queue = << >>
    /\ is_syncing = FALSE
    /\ pc = [t \in Threads |-> "idle"]
    /\ conn = [t \in Threads |-> 0]
    /\ new_record = 0
    /\ record = [t \in Threads |-> 0]
    /\ temp_queue = [t \in Threads |-> << >>]
    /\ produced = 0
    /\ rs_outcome = "none"
    /\ working = [t \in Threads |-> << >>]
    /\ failed_at = [t \in Threads |-> 0]
    /\ tracker = FALSE

DiskInit ==
    /\ dynamo_up = TRUE
    /\ dynamo_items = [v \in Vehicles |-> NoItem]
    /\ offline_files = << >>
    /\ current_size = 0
    /\ sod_pc = "idle"
    /\ pending_data = << >>
    /\ disk_produced = 0
    /\ dynamo_written = {}
    /\ accepted = {}
    /\ evicted = {}
    /\ superseded = {}
    /\ last_op = Op("init", "", FALSE, FALSE)
    /\ om_pc = [t \in Threads |-> "idle"]
    /\ om_name = [t \in Threads |-> << >>]
    /\ om_data = [t \in Threads |-> << >>]
    /\ om_loaded = [t \in Threads |-> 0]

\* the route traversal alone, over every route of 1..MaxStops stops
InitBus ==
    /\ route_type \in {1, 2}
    /\ stops \in {RouteStops(n) : n \in 1..MaxStops}
    /\ BusInit
    /\ LoopInit
    /\ connections = [i \in 1..max_connections |-> i]
    /\ db_up = TRUE
    /\ SyncInit
    /\ dynamo_available = TRUE
    /\ DiskInit
    /\ CacheInit

NextBus ==
    \/ \E choice \in 0..2 : StartTrip(choice)
    \/ next_stop

SpecBus == InitBus /\ [][NextBus]_vars

\* record_stop and the sync pass, over every pool _initialize_pool can leave
InitSync ==
    /\ route_type = 2
    /\ stops = RouteStops(3)
    /\ BusInit
    /\ LoopInit
    /\ connections \in InitialPools
    /\ db_up = TRUE
    /\ SyncInit
    /\ dynamo_available = TRUE
    /\ DiskInit
    /\ CacheInit

NextSync ==
    \/ NewTracker
    \/ RecordStopBegin
    \/ RecordStopCheck
    \/ \E t \in Threads : DbGet(t)
    \/ \E t \in Threads : DbPop(t)
    \/ \E t \in Threads : DbExec(t)
    \/ \E t \in Threads : SyncEnter(t)
    \/ \E t \in Threads : SyncDrain(t)
    \/ \E t \in Threads : SyncLoop(t)
    \/ \E t \in Threads : SyncRequeue(t)
    \/ \E t \in Threads : SyncRelease(t)
    \/ DbToggle

SpecSync == InitSync /\ [][NextSync]_vars

\* a step of thread t inside record_stop / _sync_offline_logs: a thread that
\* has entered one of the functions and is not blocked goes on running
ThreadStep(t) ==
    \/ DbGet(t)
    \/ DbPop(t)
    \/ DbExec(t)
    \/ SyncEnter(t)
    \/ SyncDrain(t)
    \/ SyncLoop(t)
    \/ SyncRequeue(t)
    \/ SyncRelease(t)
    \/ (t = "fg" /\ RecordStopCheck)

\* SpecSync with the scheduler's fairness: each of the two threads keeps
\* running while it has a step to take.  Calls from outside (a new trip's
\* StopTracker, record_stop) and the store's outages are not forced.
SpecSyncLive == SpecSync /\ \A t \in Threads : WF_vars(ThreadStep(t))

\* record_stop and the sync pass, then the shutdown
NextShutdown ==
    \/ NewTracker
    \/ RecordStopBegin
    \/ RecordStopCheck
    \/ \E t \in Threads : DbGet(t)
    \/ \E t \in Threads : DbPop(t)
    \/ \E t \in Threads : DbExec(t)
    \/ \E t \in Threads : SyncEnter(t)
    \/ \E t \in Threads : SyncDrain(t)
    \/ \E t \in Threads : SyncLoop(t)
    \/ \E t \in Threads : SyncRequeue(t)
    \/ \E t \in Threads : SyncRelease(t)
    \/ DbToggle
    \/ Quit
    \/ CloseAll
    \/ MarkOfflineGet
    \/ MarkOfflinePop
    \/ MarkOfflineExec

\* a step of the main thread inside cleanup
CleanupStep ==
    \/ CloseAll
    \/ MarkOfflineGet
    \/ MarkOfflinePop
    \/ MarkOfflineExec

\* the shutdown with the scheduler's fairness: the main thread, once in
\* cleanup, and the two threads inside record_stop / the sync pass keep
\* running while they have a step to take
SpecShutdownLive ==
    /\ InitSync
    /\ [][NextShutdown]_vars
    /\ WF_vars(CleanupStep)
    /\ \A t \in Threads : WF_vars(ThreadStep(t))

\* the DynamoDB write path and the offline store, with the client
\* initialised or not (PiOptimizedDynamoDBManager._initialize)
InitDisk ==
    /\ route_type = 2
    /\ stops = RouteStops(3)
    /\ BusInit
    /\ LoopInit
    /\ connections = [i \in 1..max_connections |-> i]
    /\ db_up = TRUE
    /\ SyncInit
    /\ dynamo_available \in BOOLEAN
    /\ DiskInit
    /\ CacheInit

\* the batches a caller hands to save_route_data: up to MaxBatch records
Batches == UNION {[1..n -> Vehicles] : n \in 0..MaxBatch}

NextDisk ==
    \/ \E v \in Vehicles, f \in 0..1 : UpdateLastStop(v, f)
    \/ \E tbl \in Tables, vs \in Batches, f \in 0..(MaxBatch + 1) :
            SaveRouteData(tbl, vs, f)
    \/ SyncOfflineBegin
    \/ \E tbl \in Tables, f \in 0..(MaxBatch + 1) : SyncOfflineStep(tbl, f)
    \/ DynamoToggle

SpecDisk == InitDisk /\ [][NextDisk]_vars

\* the offline store alone, under any sequence of calls of its interface
NextOffline ==
    \/ \E v \in Vehicles : OfflineSaveLastStop(v)
    \/ \E tbl \in Tables, vs \in Batches : OfflineSaveRouteData(tbl, vs)
    \/ \E tbl \in Tables : OfflineClearSyncedData(tbl)

SpecOffline == InitDisk /\ [][NextOffline]_vars

\* the file names of the calls: one per vehicle and one per table
SaveNames == {LastStopFile(v) : v \in Vehicles} \cup {RouteDataFile(tbl) : tbl \in Tables}

NextOfflineConc ==
    \/ \E t \in Threads, name \in SaveNames, v \in Vehicles :
            OmCall(t, name, <<v>>)
    \/ \E t \in Threads : OmCheck(t)
    \/ \E t \in Threads : OmWrite(t)
    \/ \E t \in Threads : OmLoad(t)
    \/ \E t \in Threads : OmStore(t)

\* the offline store with two threads saving into it
SpecOfflineConc == InitDisk /\ [][NextOfflineConc]_vars

\* the startup and the route cache: the store is down at startup (every
\* connect of _initialize_pool fails) or up (any of them may fail); a
\* snapshot of an earlier run may be on disk
InitCache ==
    /\ route_type = 2
    /\ stops = RouteStops(3)
    /\ BusInit
    /\ LoopInit
    /\ db_up \in BOOLEAN
    /\ connections \in (IF db_up THEN InitialPools ELSE {<< >>})
    /\ SyncInit
    /\ dynamo_available = TRUE
    /\ DiskInit
    /\ routes = NoRoutes
    /\ last_update = -1
    /\ cache_file \in {NoFile} \cup {Snapshot(RoutesOfRows(c)) : c \in StoreContents}
    /\ now = 0
    /\ rutas \in StoreContents
    /\ main_pc = "rb_get"
    /\ lr_conn = 0
    /\ config_set \in BOOLEAN
    /\ gr = [force |-> FALSE, none |-> TRUE, since |-> -1, startup |-> TRUE,
             queried |-> FALSE, failed |-> FALSE, config_error |-> FALSE,
             fell_back |-> FALSE, outcome |-> "none", result |-> << >>]
    /\ last_store_load = -1
    /\ last_loaded = NoRoutes

NextCache ==
    \/ RegisterBusGet
    \/ RegisterBusExec
    \/ \E force \in BOOLEAN : GetRoutes(force)
    \/ LoadRoutesGet
    \/ LoadRoutesExec
    \/ Tick
    \/ \E rows \in StoreContents : StoreUpdate(rows)
    \/ DbToggle

SpecCache == InitCache /\ [][NextCache]_vars

\* a step the main thread takes by itself: the startup's calls, and a load
\* under way (a later get_routes call is the caller's choice)
MainStep ==
    \/ RegisterBusGet
    \/ RegisterBusExec
    \/ (main_pc = "gr_call" /\ GetRoutes(FALSE))
    \/ LoadRoutesGet
    \/ LoadRoutesExec

\* SpecCache with the main thread running whenever it has a step to take
SpecCacheLive == SpecCache /\ WF_vars(MainStep)

\* the interactive loop around record_stop and the sync pass, on a LINEAR
\* route of three stops, over every pool _initialize_pool can leave
InitTrip ==
    /\ route_type = 2
    /\ stops = RouteStops(3)
    /\ BusInit
    /\ LoopInit
    /\ connections \in InitialPools
    /\ db_up = TRUE
    /\ SyncInit
    /\ dynamo_available = TRUE
    /\ DiskInit
    /\ CacheInit

NextTrip ==
    \/ \E choice \in 0..1 : SelectRoute(choice)
    \/ RecordStopReturn
    \/ Advance
    \/ AdvanceRequest
    \/ ExitRequest
    \/ LeaveLoop
    \/ RecordStopCheck
    \/ \E t \in Threads : DbGet(t)
    \/ \E t \in Threads : DbPop(t)
    \/ \E t \in Threads : DbExec(t)
    \/ \E t \in Threads : SyncEnter(t)
    \/ \E t \in Threads : SyncDrain(t)
    \/ \E t \in Threads : SyncLoop(t)
    \/ \E t \in Threads : SyncRequeue(t)
    \/ \E t \in Threads : SyncRelease(t)
    \/ DbToggle

SpecTrip == InitTrip /\ [][NextTrip]_vars

(***************************************************************************)
(* Route traversal claims (SpecBus).                                       *)
(***************************************************************************)
\* the trip in progress is on a LINEAR route of at least 2 stops and started
\* at index 0 facing forward
LinearForwardTrip ==
    /\ bus = "active"
    /\ route_type = 2
    /\ Len(stops) >= 2
    /\ visited[1] = [index |-> 0, direction |-> 1]

\* exactly 2*(N-1) advances have been made in the trip
RoundTripDone == Len(visited) = 2 * (Len(stops) - 1) + 1

\* C1 (as stated): on a LINEAR route of N >= 2 stops started at index 0 facing
\* forward, after exactly 2*(N-1) advances the index is 0 and the direction
\* is +1 again.
C1_RoundTripRestoresDirection ==
    (LinearForwardTrip /\ RoundTripDone)
        => (current_stop_index = 0 /\ direction = 1)

\* C1 (amended): on a LINEAR route of N >= 2 stops started at index 0 facing
\* forward, after exactly 2*(N-1) advances the index is 0 again and the
\* direction is -1 (it flips back to +1 only on the advance that follows).
C1_RoundTripReturnsToStartReversed ==
    (LinearForwardTrip /\ RoundTripDone)
        => /\ current_stop_index = 0
           /\ direction = -1
           /\ NextPos(route_type, Len(stops), current_stop_index, direction)
                  = [index |-> 1, direction |-> 1]

C1_Witness == LinearForwardTrip /\ RoundTripDone /\ Len(stops) = MaxStops

\* C2: on a LOOP route of N stops, from every position of the trip N further
\* advances lead back to the same index, and the direction is forward at
\* every position of the trip.
C2_LoopReturnsAfterN ==
    (bus = "active" /\ route_type = 1)
        => /\ direction = 1
           /\ \A k \in 1..Len(visited) :
                /\ visited[k].direction = 1
                /\ (k + Len(stops) <= Len(visited))
                       => visited[k + Len(stops)].index = visited[k].index

C2_Witness ==
    /\ bus = "active"
    /\ route_type = 1
    /\ Len(stops) >= 3
    /\ Len(visited) >= Len(stops) + 3
    /\ visited[Len(stops) + 3].index = 2

\* index after k advances of the ping-pong traversal 0,1,..,n-1,n-2,..,1,0,1,..
PingPong(n, k) ==
    LET m == k % (2 * (n - 1))
    IN IF m <= n - 1 THEN m ELSE 2 * (n - 1) - m

\* C3: on a LINEAR route of N >= 2 stops started at index 0 facing forward,
\* the k-th advance reaches index 1,2,..,N-1,N-2,..,1,0,1,..; a terminal stop
\* is never the current stop after two consecutive advances; and on stops
\* A,B,C four advances visit B, C, B, A.
C3_PingPongTraversal ==
    LinearForwardTrip
        => /\ \A k \in 1..Len(visited) :
                visited[k].index = PingPong(Len(stops), k - 1)
           /\ \A k \in 1..(Len(visited) - 1) :
                visited[k + 1].index \in {0, Len(stops) - 1}
                    => visited[k + 1].index # visited[k].index
           /\ (stops = <<"A", "B", "C">> /\ Len(visited) >= 5)
                => [k \in 1..4 |-> stops[visited[k + 1].index + 1]]
                       = <<"B", "C", "B", "A">>

C3_Witness ==
    /\ LinearForwardTrip
    /\ stops = <<"A", "B", "C">>
    /\ Len(visited) = 5
    /\ current_stop = "A"
    /\ visited[3].direction = 1 /\ visited[4].direction = -1

(***************************************************************************)
(* record_stop and sync pass claims (SpecSync).                            *)
(***************************************************************************)
\* the records in a queue
Range(q) == {q[i] : i \in 1..Len(q)}

\* C4: no failure of a backend write escapes the caller of a write: every
\* record_stop call that has ended either wrote its record or, on a failure
\* of whatever kind, returned normally with the record put on the offline
\* queue; none ended by raising.
C4_NoWriteFailureEscapes == rs_outcome \in {"none", "ok", "queued"}

\* C7: at most one thread is inside a drain pass at any time, and a trigger
\* that arrives while another thread's pass is in progress returns without
\* reading or modifying the queue (and without taking the flag).
AtMostOnePass == Cardinality({t \in Threads : InPass(t)}) <= 1

SecondTriggerIsNoOp ==
    \A t \in Threads :
        (/\ pc[t] = "sy_enter"
         /\ \E u \in Threads \ {t} : InPass(u)
         /\ pc'[t] # pc[t])
            => /\ pc'[t] = "idle"
               /\ offline_log_queue' = offline_log_queue
               /\ temp_queue' = temp_queue
               /\ working' = working
               /\ is_syncing' = is_syncing

C7_SingleFlight == []AtMostOnePass /\ [][SecondTriggerIsNoOp]_vars

\* a pass of the sync thread holds entries while the main thread, returning
\* from its writes with the queue non-empty, triggers the sync
C7_Witness ==
    /\ pc["bg"] \in PassPcs \ {"sy_drain", "sy_release"}
    /\ working["bg"] # << >>
    /\ pc["fg"] = "sy_enter"
    /\ offline_log_queue # << >>

\* C8: when a sync pass ends after the write of the k-th entry of its working
\* list failed, the queue holds the k-th and every later entry of the working
\* list and none of the first k-1 entries.
C8_FailedPassRequeuesRemainder ==
    [][\A t \in Threads :
         (InPass(t) /\ pc'[t] \notin PassPcs /\ failed_at'[t] > 0)
            => /\ \A i \in failed_at'[t]..Len(working[t]) :
                     working[t][i] \in Range(offline_log_queue')
               /\ \A i \in 1..(failed_at'[t] - 1) :
                     working[t][i] \notin Range(offline_log_queue')]_vars

\* C10: the single-flight flag is never left set while no pass is running.
C10_FlagReleasedAtPassEnd == is_syncing => \E t \in Threads : InPass(t)

\* C11: once the store is reachable and stays reachable, every record in the
\* offline queue is eventually written to the store and out of the queue,
\* without any further call from the main thread being needed (behaviours
\* in which the main thread could still call record_stop are the ones
\* looked at).
C11_QueueEventuallyDrained ==
    \A n \in 1..MaxRecords :
        [](((n \in Range(offline_log_queue))
                /\ []db_up /\ [](produced < MaxRecords))
              => <>(n \in stop_logs /\ n \notin Range(offline_log_queue)))

(***************************************************************************)
(* DynamoDB write path and offline store claims (SpecDisk).                *)
(***************************************************************************)
\* the entries of listPending() that are for vehicle v: those keyed by v or
\* holding a record of v
PendingEntriesFor(v) ==
    LET p == get_pending_data(offline_files)
    IN {k \in DOMAIN p : k = v \/ \E i \in 1..Len(p[k]) : p[k][i].BUSS_ID = v}

\* C5: after update_last_stop for a vehicle found the backend unreachable
\* (client missing, or the request failed) and queued the record,
\* get_pending_data() holds exactly one entry for that vehicle.
C5_QueuedPositionIsPending ==
    (last_op.op = "update_last_stop" /\ last_op.queued)
        => Cardinality(PendingEntriesFor(last_op.key)) = 1

\* C6: every record of a write call that returned is in the backend or in the
\* offline queue, unless capacity eviction deleted it (a record replaced by a
\* later write to the same file is not counted as lost either).
C6_NoRecordSilentlyDropped ==
    \A r \in accepted :
        \/ r \in dynamo_written
        \/ r \in FileIds(offline_files)
        \/ r \in evicted
        \/ r \in superseded

\* C9: when the backend write of a batch fails in an iteration of
\* sync_offline_data, the batch is still in the offline store after it.
C9_FailedBatchStaysQueued ==
    (last_op.op = "sync_table" /\ last_op.failed)
        => HasFile(offline_files, RouteDataFile(last_op.key))

(***************************************************************************)
(* Offline store claims (SpecOffline).                                     *)
(***************************************************************************)
FileNames(files) == {files[i].name : i \in 1..Len(files)}

\* rank of a file by modification time (1: the oldest)
Position(files, name) == CHOOSE i \in 1..Len(files) : files[i].name = name

\* the call made was save_last_stop (enqueueSingle) or save_route_data
\* (enqueueBatch)
IsEnqueue(op) == op.op \in {"save_last_stop", "save_route_data"}

\* C12: after any sequence of save_last_stop, save_route_data and
\* clear_synced_data calls the number of files of the offline store is at
\* most the configured maximum.
C12_PopulationWithinMaximum == Len(offline_files) <= MaxOfflineStorage

C12_Witness ==
    /\ Len(offline_files) = MaxOfflineStorage
    /\ IsEnqueue(last_op)
    /\ last_op.before = MaxOfflineStorage

\* C13 (as stated): a save_route_data call made when the store holds exactly
\* the maximum number of files leaves at most 80% of the maximum.
C13_EnqueueAtMaximumLeavesEightyPercent ==
    (last_op.op = "save_route_data" /\ last_op.before = MaxOfflineStorage)
        => 10 * Len(offline_files) <= 8 * MaxOfflineStorage

\* C13 (amended): a save_route_data call made when the store holds exactly
\* the maximum number of files leaves at most 80% of the maximum plus the
\* file it writes (9 for a maximum of 10).
C13_EnqueueAtMaximumLeavesEightyPercentPlusOne ==
    (last_op.op = "save_route_data" /\ last_op.before = MaxOfflineStorage)
        => /\ Len(offline_files) <= (8 * MaxOfflineStorage) \div 10 + 1
           /\ 10 * (Len(offline_files) - 1) <= 8 * MaxOfflineStorage

C13_Witness ==
    /\ last_op.op = "save_route_data"
    /\ last_op.before = MaxOfflineStorage
    /\ Len(offline_files) = (8 * MaxOfflineStorage) \div 10 + 1

\* C14: eviction goes by increasing modification time: of the files present
\* before an enqueue, each one the call left in place was modified at least
\* as recently as each one the call deleted.
C14_EvictionOldestFirst ==
    [][IsEnqueue(last_op')
         => LET gone == FileNames(offline_files) \ FileNames(offline_files')
                kept == (FileNames(offline_files)
                            \cap FileNames(offline_files')) \ {last_op'.key}
            IN \A e \in gone, k \in kept :
                  Position(offline_files, e) < Position(offline_files, k)]_vars

\* an enqueue on a full store has evicted and left earlier files in place
C14_Witness ==
    /\ IsEnqueue(last_op)
    /\ last_op.before = MaxOfflineStorage
    /\ Len(offline_files) >= 2
    /\ evicted # {}
    /\ ~HasFile(offline_files, RouteDataFile("t1"))

\* C15: while the number of files on disk is below the maximum, an enqueue
\* removes no file other than the one it overwrites.
C15_NoEvictionBelowMaximum ==
    [][(IsEnqueue(last_op') /\ Len(offline_files) < MaxOfflineStorage)
         => \A n \in FileNames(offline_files) \ {last_op'.key} :
               /\ HasFile(offline_files', n)
               /\ FileData(offline_files', n) = FileData(offline_files, n)]_vars

\* after an enqueue: one file per name, and the file of the call's key holds
\* the call's payload
KeyHoldsPayload ==
    /\ \A i, j \in 1..Len(offline_files') :
          offline_files'[i].name = offline_files'[j].name => i = j
    /\ HasFile(offline_files', last_op'.key)
    /\ FileData(offline_files', last_op'.key) = JsonRecords(last_op'.payload)

\* C16 (as stated): an enqueue is a keyed overwrite: afterwards there is one
\* file per vehicle / per table, the file of the call's key holds the call's
\* payload, and the files of the other keys are as before the call.
C16_KeyedOverwrite ==
    [][IsEnqueue(last_op')
         => /\ KeyHoldsPayload
            /\ \A n \in (FileNames(offline_files)
                            \cup FileNames(offline_files')) \ {last_op'.key} :
                  /\ HasFile(offline_files, n) /\ HasFile(offline_files', n)
                  /\ FileData(offline_files', n) = FileData(offline_files, n)]_vars

\* C16 (amended): an enqueue is a keyed overwrite: afterwards there is one
\* file per vehicle / per table, the file of the call's key holds the call's
\* payload, and each file of another key is as before the call unless the
\* call's eviction deleted it.
C16_KeyedOverwriteExceptEvicted ==
    [][IsEnqueue(last_op')
         => /\ KeyHoldsPayload
            /\ \A n \in FileNames(offline_files') \ {last_op'.key} :
                  /\ HasFile(offline_files, n)
                  /\ FileData(offline_files', n) = FileData(offline_files, n)]_vars

\* an enqueue has replaced the payload of its key next to another file
C16_Witness ==
    /\ IsEnqueue(last_op)
    /\ last_op.before = Len(offline_files)
    /\ Len(offline_files) >= 2
    /\ evicted = {}
    /\ RecIds(last_op.payload) # {}
    /\ \E r \in superseded : r + 1 \in RecIds(last_op.payload)

\* Python's == on two values of the Time field that are datetimes: aware
\* datetimes are equal when they are the same instant, whatever the tzinfo
DatetimeEq(a, b) == a.tag = "datetime" /\ b.tag = "datetime" /\ a.t = b.t

C18_QueriesExactlyWhenStale ==
    (config_set /\ gr.outcome = "returned" /\ (gr.none \/ gr.since # -1))
        => (gr.queried <=> \/ gr.none
                           \/ gr.force
                           \/ gr.since > 3600)

\* C19: a get_routes call whose refresh failed returns the table of the last
\* refresh that succeeded, if there was one; the persisted snapshot, if there
\* is one; and the empty table if there is no snapshot.
C19_FailedRefreshRestoresSnapshot ==
    (gr.outcome = "returned" /\ gr.queried /\ gr.failed)
        => /\ last_loaded.loaded => gr.result = last_loaded.table
           /\ cache_file.exists => gr.result = RoutesOfCache(cache_file.data)
           /\ ~cache_file.exists => gr.result = << >>

\* a refresh failed after one that succeeded, the store's routes having
\* changed in between
C19_Witness ==
    /\ gr.outcome = "returned" /\ gr.queried /\ gr.failed
    /\ last_loaded.loaded
    /\ gr.result # << >>
    /\ gr.result # RoutesOfRows(rutas)
    /\ \E id \in DOMAIN gr.result : gr.result[id].route_type = 2

\* C20: when every connect failed while the pool was populated, the startup
\* does not hang: its get_routes call eventually returns, with the persisted
\* snapshot or, if there is none, the empty table.
C20_StartupReturnsWithEmptyPool ==
    (connections = << >> /\ main_pc = "rb_get")
        => <>(/\ gr.outcome = "returned"
              /\ gr.result = IF cache_file.exists
                             THEN RoutesOfCache(cache_file.data) ELSE << >>)

\* C21: when COUNTRY_CODE or REGION_NAME is missing, a get_routes call that
\* loads routes ends with the configuration error raised to its caller, and
\* the persisted snapshot is not loaded in its place.
C21_MissingConfigIsRaised ==
    gr.config_error => (gr.outcome = "raised" /\ ~gr.fell_back)

\* C22: when the startup's get_routes call returns an empty route table,
\* initialize_system fails with a fatal error, and from then on the
\* interactive loop is never entered.
C22_EmptyTableIsFatalAtStartup ==
    /\ []((gr.startup /\ gr.outcome = "returned" /\ gr.result = << >>)
            => main_pc = "fatal")
    /\ [][main_pc = "fatal" => main_pc' = "fatal"]_vars

\* the store failed the startup's query and there was no snapshot
C22_Witness ==
    /\ main_pc = "fatal"
    /\ gr.startup /\ gr.failed /\ ~cache_file.exists
    /\ gr.result = << >>

(***************************************************************************)
(* Connection pool claims (SpecSync).                                      *)
(***************************************************************************)
\* the connections held by the callers of get_connection
Held == {conn[t] : t \in {u \in Threads : conn[u] # 0}}

\* the connections in the pool's list
Available == Range(connections)

\* C23: the connections in the pool together with those held by callers are
\* at every moment the connections the pool was populated with, each of them
\* in one place only: the list holds no connection twice, none that a caller
\* holds, and no two callers hold the same one; get_connection takes the
\* connection it returns out of the list and release_connection puts it back.
C23_PoolConservation ==
    /\ [](/\ Cardinality(Available) = Len(connections)
          /\ Available \cap Held = {}
          /\ (conn["fg"] # 0 /\ conn["bg"] # 0) => conn["fg"] # conn["bg"])
    /\ [][Available' \cup Held' = Available \cup Held]_vars
    /\ [][\A t \in Threads :
            /\ (conn[t] = 0 /\ conn'[t] # 0)
                  => (conn'[t] \in Available /\ conn'[t] \notin Available')
            /\ (conn[t] # 0 /\ conn'[t] = 0) => conn[t] \in Available']_vars

\* both threads hold a connection at once and the pool is empty
C23_Witness ==
    /\ conn["fg"] # 0
    /\ conn["bg"] # 0
    /\ connections = << >>

\* C24: no get_connection call fails, however many threads call it on a
\* pool with fewer connections than callers: a call that is past its wait
\* leaves get_connection only by returning a connection to its caller.
C24_AcquireNeverFails ==
    [][\A t \in Threads :
         (pc[t] \in PopPcs /\ pc'[t] # pc[t]) => conn'[t] # 0]_vars

(***************************************************************************)
(* Claims on the route object shared with the cache (SpecBus).             *)
(***************************************************************************)
\* C25: no operation on a vehicle position (set_direction at the start of a
\* trip, next_stop) changes the stop list of the route held in the cache.
C25_PositionLeavesRouteStops ==
    [][stops' = stops]_vars

\* the trip in progress was started in reverse on a LINEAR route
ReverseTrip ==
    /\ bus = "active"
    /\ route_type = 2
    /\ visited[1].direction = -1

\* C26: every trip started in reverse on a LINEAR route runs over the reverse
\* of the stop order the route was loaded with, facing -1, whatever trips
\* were started on the same cached route before.
C26_ReverseTripRunsLoadedOrderReversed ==
    ReverseTrip
        => /\ stops = Reverse(RouteStops(Len(stops)))
           /\ visited[1].direction = -1

\* C27: on a route of at least 2 stops, LOOP or LINEAR, whatever the
\* direction choice and the number of advances, the index is within the stop
\* list and the direction is +1 or -1.
C27_IndexAndDirectionInRange ==
    (bus = "active" /\ Len(stops) >= 2)
        => /\ current_stop_index >= 0
           /\ current_stop_index < Len(stops)
           /\ direction \in {1, -1}

\* a trip started in reverse on a LINEAR route has turned at both terminals
C27_Witness ==
    /\ ReverseTrip
    /\ Len(stops) >= 3
    /\ Len(visited) > 2 * (Len(stops) - 1) + 1
    /\ direction = 1

(***************************************************************************)
(* Write path claims (SpecDisk).                                           *)
(***************************************************************************)
\* C28: a call of update_last_stop or save_route_data changes the offline
\* store only if is_connection_available() was false, in which case nothing
\* is written to the table, or its write to the table failed; with the
\* backend available and no failure nothing is stored offline, whatever the
\* payload, the empty batch included.
C28_OfflineOnlyWhenUnreachableOrFailed ==
    [][last_op'.op \in {"update_last_stop", "save_route_data"}
         => /\ (offline_files' # offline_files)
                  => (~dynamo_available \/ last_op'.failed)
            /\ ~dynamo_available => dynamo_written' = dynamo_written]_vars

(***************************************************************************)
(* Latest-position row (SpecSync).                                         *)
(***************************************************************************)
\* C30: the row of ULTIMAS_PARADAS always holds the most recent record
\* delivered: a write never replaces the row by a record older than the one
\* it holds, in particular not when a sync pass delivers queued records after
\* a foreground write of a newer one.
C30_LatestPositionNeverGoesBack ==
    [][ultimas_paradas' >= ultimas_paradas]_vars

(***************************************************************************)
(* Record production (SpecTrip).                                           *)
(***************************************************************************)
\* record n is in the store, in the offline queue, or in the hands of a sync
\* pass that took it from the queue
Durable(n) ==
    \/ n \in stop_logs
    \/ n \in Range(offline_log_queue)
    \/ \E t \in Threads :
          InPass(t) /\ (record[t] = n \/ n \in Range(temp_queue[t]))

\* this step applies an advance to the trip in progress
AdvanceApplied ==
    /\ bus = "active"
    /\ trips' = trips
    /\ Len(visited') = Len(visited) + 1

C31_ConcurrentEnqueueWithinMaximum ==
    Cardinality(FileNames(offline_files)) <= MaxOfflineStorage

(***************************************************************************)
(* Order of the offline log queue (SpecSync).                              *)
(***************************************************************************)
\* the queue holds its records oldest-produced first
InProductionOrder(q) ==
    \A i, j \in 1..Len(q) : i < j => q[i] < q[j]

\* C32: when a sync pass that failed has re-queued its remaining working
\* list and ends, the queue is in production order, oldest first, the
\* records that record_stop queued during the pass included.
C32_RequeueKeepsProductionOrder ==
    [][\A t \in Threads :
         (pc[t] = "sy_release" /\ pc'[t] \notin PassPcs /\ failed_at[t] > 0)
            => InProductionOrder(offline_log_queue')]_vars

(***************************************************************************)
(* Offline store counter (SpecOffline).                                    *)
(***************************************************************************)
\* C33: after any sequence of save_last_stop, save_route_data and
\* clear_synced_data calls (with the evictions they make), _current_size
\* is the number of files on disk, also when a save replaced the file of
\* its key.
C33_CounterIsPopulation ==
    current_size = Len(offline_files)

(***************************************************************************)
(* sync_offline_data against concurrent saves (SpecDisk).                  *)
(***************************************************************************)
\* the records of table tbl's file that the pass's snapshot does not hold:
\* those of a batch saved for tbl after the pass read the directory
SavedSinceSnapshot(tbl) ==
    IF HasFile(offline_files, RouteDataFile(tbl))
    THEN RecIds(FileData(offline_files, RouteDataFile(tbl)))
            \ RecIds(pending_data[tbl])
    ELSE {}

\* C34: an iteration of sync_offline_data for a table, of which the pass
\* holds a snapshot with records that it delivers, removes from the offline
\* store no record of a batch that was saved for the table after the pass
\* took its snapshot, unless that record was delivered to DynamoDB.
C34_PassKeepsBatchesSavedDuringIt ==
    [][\A tbl \in Tables :
         (sod_pc = "loop" /\ tbl \in DOMAIN pending_data
                          /\ tbl \notin DOMAIN pending_data'
                          /\ pending_data[tbl] # << >>
                          /\ ~last_op'.failed)
            => \A r \in SavedSinceSnapshot(tbl) :
                  r \in FileIds(offline_files') \/ r \in dynamo_written']_vars

(***************************************************************************)
(* Shutdown (SpecShutdownLive).                                            *)
(***************************************************************************)
\* C35: the shutdown terminates: once cleanup is entered, close_all and
\* _mark_bus_offline run to completion; the main thread does not wait for
\* ever for a connection.
C35_CleanupTerminates ==
    (loop_pc = "closing") ~> (loop_pc = "done")

(***************************************************************************)
(* Advance requests (SpecTrip).                                            *)
(***************************************************************************)
\* C36: an advance requested while the previous advance is being recorded
\* or announced is not lost: when operation_loop waits again and no advance
\* was performed since the request, the request is still pending.
C36_RequestDuringAdvanceIsKept ==
    (loop_pc = "wait" /\ unserved) => advance_event

(***************************************************************************)
(* The record of the starting stop (SpecBus).                              *)
(***************************************************************************)
\* C37: on a route of at least two distinct stops, at trip start (before any
\* advance) the destination of the record differs from its current stop,
\* whichever direction was chosen.
C37_StartDestinationIsNotCurrentStop ==
    (bus = "active" /\ Len(visited) = 1 /\ Len(stops) >= 2)
        => final_destination # current_stop

=============================================================================
